---- MODULE Spec2Model ----
(***************************************************************************)
(* Model of src/src/extension.ts: the "upload to WeChat" command of the    *)
(* markdown2weixin editor extension.                                       *)
(*                                                                         *)
(* Texts that the code inspects character by character (document text,    *)
(* file names, settings, titles) are sequences of one-character strings.  *)
(* Texts that the code only concatenates and displays (notification and   *)
(* error messages, response fields) are TLA+ strings.  The module is      *)
(* ASCII, so the Chinese literals of the source are written as English    *)
(* stand-ins; each names the source line of the literal it stands for.    *)
(***************************************************************************)
EXTENDS Integers, Sequences, FiniteSets, TLC

VARIABLES
    document,     \* SpecTitle: the vscode.TextDocument handed to extractTitle
    extracted,    \* SpecTitle: what extractTitle returned for it
    pc,           \* per invocation: where uploadToWeChat stands
    locals,       \* per invocation: what the handler has read and computed
    requests,     \* per invocation: the fetch() calls issued, in order
    response,     \* per invocation: the transport outcome delivered to it
    progress,     \* per invocation: the progress.report() messages, in order
    notes,        \* per invocation: the notifications shown, in order
    prompt,       \* per invocation: state of the "open settings" prompt
    overlaps,     \* per invocation: the invocations suspended when it started
    clipboard,    \* the system clipboard (shared by all invocations)
    settingsUi    \* number of times the settings UI was opened

vars == <<document, extracted, pc, locals, requests, response, progress, notes,
          prompt, overlaps, clipboard, settingsUi>>

workflowVars == <<pc, locals, requests, response, progress, notes, prompt,
                  overlaps, clipboard, settingsUi>>

(***************************************************************************)
(* Bounds of the title-extraction inputs.                                  *)
(***************************************************************************)
MaxTextLen == 5
MaxBaseLen == 1

(***************************************************************************)
(* JavaScript string primitives used by the code.                          *)
(***************************************************************************)
\* Characters String.prototype.trim() strips and the regex class \s matches.
WhiteSpace == {" ", "\t", "\n", "\r"}

\* Characters the regex "." does not match and at which "^"/"$" anchor
\* under the m flag.
LineTerminators == {"\n", "\r"}

Max(S) == CHOOSE x \in S : \A y \in S : y <= x

Min(S) == CHOOSE x \in S : \A y \in S : x <= y

RECURSIVE TrimStart(_)
TrimStart(s) ==
    IF s # <<>> /\ Head(s) \in WhiteSpace THEN TrimStart(Tail(s)) ELSE s

RECURSIVE TrimEnd(_)
TrimEnd(s) ==
    IF s # <<>> /\ s[Len(s)] \in WhiteSpace
    THEN TrimEnd(SubSeq(s, 1, Len(s) - 1))
    ELSE s

\* String.prototype.trim()
Trim(s) == TrimEnd(TrimStart(s))

\* Character comparison under the regex i flag.
Lower(c) ==
    CASE c = "M" -> "m"
      [] c = "D" -> "d"
      [] c = "A" -> "a"
      [] OTHER -> c

\* Length of the longest run of characters from class C starting at i.
RECURSIVE RunLength(_, _, _)
RunLength(s, i, C) ==
    IF i <= Len(s) /\ s[i] \in C THEN 1 + RunLength(s, i + 1, C) ELSE 0

RECURSIVE RunLengthNot(_, _, _)
RunLengthNot(s, i, C) ==
    IF i <= Len(s) /\ s[i] \notin C THEN 1 + RunLengthNot(s, i + 1, C) ELSE 0

\* Results of String.prototype.match and of extractTitle: null or a string.
Null == [kind |-> "null"]

Str(s) == [kind |-> "string", value |-> s]

(***************************************************************************)
(* extractTitle, line 156: text.match(/^#\s+(.+)$/m), capture group 1.     *)
(***************************************************************************)
\* "^" under the m flag: the position before character i.
AtLineStart(s, i) == i = 1 \/ s[i - 1] \in LineTerminators

\* "$" under the m flag: the position before character i.
AtLineEnd(s, i) == i = Len(s) + 1 \/ s[i] \in LineTerminators

\* The lengths k of a \s+ run after the "#" at i for which (.+)$ matches
\* behind it; the backtracking matcher takes the longest.
HeadingWsLengths(s, i) ==
    {k \in 1..RunLength(s, i + 1, WhiteSpace) :
        \E m \in 1..RunLengthNot(s, i + 1 + k, LineTerminators) :
            AtLineEnd(s, i + 1 + k + m)}

\* Whether the pattern matches with its "#" at position i.
HeadingMatchesAt(s, i) ==
    /\ i <= Len(s)
    /\ AtLineStart(s, i)
    /\ s[i] = "#"
    /\ HeadingWsLengths(s, i) # {}

\* Capture group 1 of the match with its "#" at i (greedy \s+, greedy .+).
HeadingCapture(s, i) ==
    LET k == Max(HeadingWsLengths(s, i))
        m == Max({n \in 1..RunLengthNot(s, i + 1 + k, LineTerminators) :
                    AtLineEnd(s, i + 1 + k + n)})
    IN  SubSeq(s, i + 1 + k, i + k + m)

\* titleMatch[1] of line 156: the leftmost match, or null.
titleMatch(text) ==
    LET starts == {i \in 1..Len(text) : HeadingMatchesAt(text, i)}
    IN  IF starts = {} THEN Null ELSE Str(HeadingCapture(text, Min(starts)))

(***************************************************************************)
(* extractTitle, line 163: fileName.match(/([^/\\]+)\.md$/i), group 1.     *)
(***************************************************************************)
Separators == {"/", "\\"}

\* \.md$ under the i flag, starting at position i.
DotMdAtEnd(s, i) ==
    /\ i + 2 = Len(s)
    /\ s[i] = "."
    /\ Lower(s[i + 1]) = "m"
    /\ Lower(s[i + 2]) = "d"

\* The lengths n of a [^/\\]+ run starting at i behind which \.md$ matches.
BaseLengths(s, i) ==
    {n \in 1..RunLengthNot(s, i, Separators) : DotMdAtEnd(s, i + n)}

\* Mutant: the character class excludes only "/" ([^/]+).
fileNameMatch_slashOnly(fileName) ==
    LET lengths(i) == {n \in 1..RunLengthNot(fileName, i, {"/"}) :
                          DotMdAtEnd(fileName, i + n)}
        starts == {i \in 1..Len(fileName) : lengths(i) # {}}
    IN  IF starts = {}
        THEN Null
        ELSE LET i == Min(starts)
             IN  Str(SubSeq(fileName, i, i + Max(lengths(i)) - 1))

\* fileNameMatch[1] of line 163: leftmost match, greedy run, or null.
fileNameMatch(fileName) ==
    LET starts == {i \in 1..Len(fileName) : BaseLengths(fileName, i) # {}}
    IN  IF starts = {}
        THEN Null
        ELSE LET i == Min(starts)
             IN  Str(SubSeq(fileName, i, i + Max(BaseLengths(fileName, i)) - 1))

\* Line 170: the literal returned for an unsaved document (Chinese for
\* "untitled document").
UntitledPlaceholder == <<"u", "n", "t", "i", "t", "l", "e", "d">>

\* JavaScript truthiness of a string-or-null value.
Truthy(v) == v.kind = "string" /\ v.value # <<>>

\* Mutant: the placeholder is returned without testing isUntitled.
extractTitle_placeholderAlways(doc) ==
    LET tm == titleMatch(doc.text)
        fm == fileNameMatch(doc.fileName)
    IN  IF Truthy(tm) THEN Str(Trim(tm.value))
        ELSE IF Truthy(fm) THEN Str(fm.value)
        ELSE Str(UntitledPlaceholder)

\* extractTitle(document), lines 152-174.
extractTitle(doc) ==
    LET tm == titleMatch(doc.text)
        fm == fileNameMatch(doc.fileName)
    IN  IF Truthy(tm) THEN Str(Trim(tm.value))
        ELSE IF Truthy(fm) THEN Str(fm.value)
        ELSE IF doc.isUntitled THEN Str(UntitledPlaceholder)
        ELSE Null

(***************************************************************************)
(* Bounded input sets.                                                     *)
(***************************************************************************)
SeqsUpTo(A, n) == UNION {[1..k -> A] : k \in 0..n}

TextAlphabet == {"#", " ", "\n", "a"}

Texts == SeqsUpTo(TextAlphabet, MaxTextLen)

\* File names: an optional directory, a base name, an extension.
Directories == {<<>>, <<"d", "/">>, <<"d", "\\">>}

BaseNames == SeqsUpTo({"a"}, MaxBaseLen)

Extensions == {<<>>, <<".", "m", "d">>, <<".", "M", "d">>, <<".", "m", "d", "x">>}

FileNames == {d \o b \o e : d \in Directories, b \in BaseNames, e \in Extensions}

Documents ==
    [text : Texts, fileName : FileNames, isUntitled : BOOLEAN]

(***************************************************************************)
(* Host values.                                                            *)
(***************************************************************************)
Undefined == [kind |-> "undefined"]

\* A local the handler has not assigned (it returned before reaching it).
Unset == [kind |-> "unset"]

\* A notification of vscode.window.show*Message: severity, text, buttons.
Notification(severity, text, actions) ==
    [severity |-> severity, text |-> text, actions |-> actions]

\* The message literals of the source, by line.
MsgNoEditor == "Please open a Markdown file first"                  \* line 51

MsgNotMarkdown == "The current file is not a Markdown file"         \* line 57

MsgEmpty == "The document is empty, nothing to upload"              \* line 64

MsgNoTitle == "Cannot extract the article title"                    \* line 71

MsgSuccessPrefix == "Upload succeeded!\nTitle: "                    \* line 94

MsgMediaIdPrefix == "\nMedia ID: "                                  \* line 94

ActionCopy == "Copy Media ID"                                       \* line 95

ActionClose == "Close"                                              \* line 96

MsgCopied == "Media ID copied to the clipboard"                     \* line 101

MsgSuccessPlain == "Upload succeeded!"                              \* line 105

MsgUnknownError == "Unknown error"                                  \* line 115

MsgFailurePrefix == "Upload failed: "                               \* line 116

MsgConfigure == "Please configure the AppID and AppSecret first"    \* line 133

ActionOpenSettings == "Open settings"                               \* line 134

MsgUploadFailed == "Upload failed"                                  \* line 220

(***************************************************************************)
(* getConfiguration, lines 122-149.  settings holds the four values that   *)
(* config.get<string>(key, '') returns.                                    *)
(***************************************************************************)
\* A string-or-undefined: s || undefined
OrUndefined(s) == IF s = <<>> THEN Undefined ELSE Str(s)

\* Mutant: the settings are validated and passed on without trim().
getConfiguration_untrimmed(settings) ==
    IF settings.appid = <<>> \/ settings.appSecret = <<>>
    THEN Null
    ELSE [kind |-> "config",
          appid |-> settings.appid,
          appSecret |-> settings.appSecret,
          author |-> OrUndefined(settings.author),
          digest |-> OrUndefined(settings.digest)]

\* The value getConfiguration returns: null or a WeChatConfig.
getConfiguration(settings) ==
    LET appid == Trim(settings.appid)
        appSecret == Trim(settings.appSecret)
        author == Trim(settings.author)
        digest == Trim(settings.digest)
    IN  IF appid = <<>> \/ appSecret = <<>>
        THEN Null
        ELSE [kind |-> "config",
              appid |-> appid,
              appSecret |-> appSecret,
              author |-> OrUndefined(author),
              digest |-> OrUndefined(digest)]

\* The message getConfiguration shows before it returns null (line 132).
ConfigurationPrompt ==
    Notification("error", MsgConfigure, <<ActionOpenSettings>>)

(***************************************************************************)
(* callWeChatApi, lines 177-224, up to the await of fetch().               *)
(***************************************************************************)
EmptyObject == [f \in {} |-> 0]

\* Mutant: the optional field is always assigned.
OptionalField_always(name, v) ==
    name :> (IF v.kind = "string" THEN v.value ELSE <<>>)

\* requestBody.<name> = v.value, only when v is truthy (lines 193-198).
OptionalField(name, v) ==
    IF Truthy(v) THEN name :> v.value ELSE EmptyObject

\* The object handed to JSON.stringify (lines 185-198).
requestBody(markdown, title, config) ==
    [markdown |-> markdown,
     title |-> title,
     appid |-> config.appid,
     app_secret |-> config.appSecret]
        @@ OptionalField("author", config.author)
        @@ OptionalField("digest", config.digest)

apiUrl == "https://www.fastpen.online/api/draft/multi/import-markdown"

\* The fetch() call of lines 201-207.
fetchRequest(markdown, title, config) ==
    [url |-> apiUrl,
     method |-> "POST",
     contentType |-> "application/json",
     body |-> requestBody(markdown, title, config)]

(***************************************************************************)
(* uploadToWeChat, lines 40-119, up to the await of callWeChatApi.  The    *)
(* handler runs without suspension from its entry to the fetch() call.     *)
(* env holds what the host returns when the handler asks: the settings     *)
(* and the active editor.                                                  *)
(***************************************************************************)
NoEditor == [kind |-> "none"]

Editor(languageId, doc) ==
    [kind |-> "editor", languageId |-> languageId, document |-> doc]

\* What an Editor tells about itself before its document is read.
EditorSeen(editor) ==
    IF editor = NoEditor
    THEN NoEditor
    ELSE [kind |-> "editor", languageId |-> editor.languageId]

\* Mutant: only a null title stops the upload (title === null).
TitleMissing_nullOnly(title) == title = Null

\* !title, line 70.
TitleMissing(title) == ~Truthy(title)

NoLocals ==
    [settings |-> Unset, config |-> Unset, editor |-> Unset,
     markdown |-> Unset, doc |-> Unset, title |-> Unset, result |-> Unset]

\* A return before the upload: one notification, no request.
EarlyReturn(read, note) ==
    [exit |-> "return", locals |-> read, notes |-> <<note>>, requests |-> <<>>]

Workflow(env) ==
    LET config == getConfiguration(env.settings)
        l1 == [NoLocals EXCEPT !.settings = env.settings, !.config = config]
        l2 == [l1 EXCEPT !.editor = EditorSeen(env.editor)]
    IN  IF config = Null
        THEN [exit |-> "unconfigured", locals |-> l1,
              notes |-> <<ConfigurationPrompt>>, requests |-> <<>>]
        ELSE IF env.editor = NoEditor
        THEN EarlyReturn(l2, Notification("error", MsgNoEditor, <<>>))
        ELSE IF env.editor.languageId # "markdown"
        THEN EarlyReturn(l2, Notification("error", MsgNotMarkdown, <<>>))
        ELSE
        LET doc == env.editor.document
            l4 == [l2 EXCEPT !.markdown = Str(doc.text)]
        IN  IF Trim(doc.text) = <<>>
            THEN EarlyReturn(l4, Notification("error", MsgEmpty, <<>>))
            ELSE
            LET title == extractTitle(doc)
                l5 == [l4 EXCEPT !.doc = doc, !.title = title]
            IN  IF TitleMissing(title)
                THEN EarlyReturn(l5, Notification("error", MsgNoTitle, <<>>))
                ELSE [exit |-> "await", locals |-> l5, notes |-> <<>>,
                      requests |-> <<fetchRequest(doc.text, title.value, config)>>]

\* Mutant: a module-level "upload in progress" flag withholds the upload of
\* an invocation that starts while another one is suspended.
uploadToWeChat_guarded(i, env) ==
    IF \E j \in DOMAIN pc : j # i /\ pc[j] = "awaiting"
    THEN [Workflow(env) EXCEPT !.exit = "return", !.requests = <<>>]
    ELSE Workflow(env)

\* uploadToWeChat as run for invocation i: the handler keeps no state that
\* outlives or is shared between invocations.
uploadToWeChat(i, env) == Workflow(env)

(***************************************************************************)
(* callWeChatApi, lines 209-223: what it does with the settled fetch().    *)
(* A transport outcome is a rejection (network failure) or a response      *)
(* with a status and a body; the body is given by its text, as             *)
(* response.text() returns it, and by what response.json() makes of it.    *)
(***************************************************************************)
Thrown(message) ==
    [threw |-> TRUE, error |-> [isError |-> TRUE, message |-> message]]

Returned(result) == [threw |-> FALSE, result |-> result]

\* response.ok
Ok(status) == status >= 200 /\ status <= 299

\* A non-empty string field of a parsed object: the operands of "||".
HasText(o, f) == f \in DOMAIN o /\ o[f] # ""

\* result.success is truthy.
Success(o) == "success" \in DOMAIN o /\ o.success = TRUE

\* result.error || result.message || <fallback>, line 220.
BusinessMessage(o) ==
    IF HasText(o, "error") THEN o.error
    ELSE IF HasText(o, "message") THEN o.message
    ELSE MsgUploadFailed

\* Line 212.
HttpMessage(status, errorText) ==
    "HTTP " \o ToString(status) \o ": " \o errorText

\* The TypeError of reading .success of a body that parsed to null.
MsgNullSuccess == "Cannot read properties of null (reading 'success')"

\* Mutant: the business flag is tested before the HTTP status.
callWeChatApi_successFirst(outcome) ==
    IF outcome.kind = "rejected"
    THEN Thrown(outcome.message)
    ELSE IF outcome.body.json.kind = "object" /\ Success(outcome.body.json.value)
    THEN Returned(outcome.body.json.value)
    ELSE IF ~Ok(outcome.status)
    THEN Thrown(HttpMessage(outcome.status, outcome.body.text))
    ELSE IF outcome.body.json.kind = "syntaxError"
    THEN Thrown(outcome.body.json.message)
    ELSE IF outcome.body.json.kind = "null"
    THEN Thrown(MsgNullSuccess)
    ELSE Thrown(BusinessMessage(outcome.body.json.value))

\* The continuation of callWeChatApi after "await fetch(...)".
callWeChatApi(outcome) ==
    IF outcome.kind = "rejected"
    THEN Thrown(outcome.message)
    ELSE IF ~Ok(outcome.status)
    THEN Thrown(HttpMessage(outcome.status, outcome.body.text))
    ELSE IF outcome.body.json.kind = "syntaxError"      \* line 216 rejects
    THEN Thrown(outcome.body.json.message)
    ELSE IF outcome.body.json.kind = "null"             \* line 219 reads null
    THEN Thrown(MsgNullSuccess)
    ELSE IF ~Success(outcome.body.json.value)
    THEN Thrown(BusinessMessage(outcome.body.json.value))
    ELSE Returned(outcome.body.json.value)

(***************************************************************************)
(* uploadToWeChat, lines 87-118: what it does with the settled             *)
(* callWeChatApi.                                                          *)
(***************************************************************************)
\* Line 94.
SuccessMessage(data) ==
    MsgSuccessPrefix \o data.title \o MsgMediaIdPrefix \o data.media_id

\* Mutant: the handler never reads error.message.
FailureNotification_generic(error) ==
    Notification("error", MsgFailurePrefix \o MsgUnknownError, <<>>)

\* Lines 113-117: the top-level handler.
FailureNotification(error) ==
    Notification("error",
                 MsgFailurePrefix \o
                     (IF error.isError THEN error.message ELSE MsgUnknownError),
                 <<>>)

\* result.success && result.data, line 92.
HasData(result) == Success(result) /\ "data" \in DOMAIN result

\* Mutant: a result without a data payload is presented as a failure.
Present_payloadRequired(settled) ==
    IF settled.threw
    THEN [note |-> FailureNotification(settled.error), dialog |-> FALSE]
    ELSE IF HasData(settled.result)
    THEN [note |-> Notification("info", SuccessMessage(settled.result.data),
                                <<ActionCopy, ActionClose>>),
          dialog |-> TRUE]
    ELSE [note |-> Notification("error", MsgFailurePrefix \o MsgUploadFailed, <<>>),
          dialog |-> FALSE]

\* Lines 92-107 and 113-117: the notification shown for a settled call, and
\* whether the handler then awaits the user's choice.
Present(settled) ==
    IF settled.threw
    THEN [note |-> FailureNotification(settled.error), dialog |-> FALSE]
    ELSE IF HasData(settled.result)
    THEN [note |-> Notification("info", SuccessMessage(settled.result.data),
                                <<ActionCopy, ActionClose>>),
          dialog |-> TRUE]
    ELSE [note |-> Notification("info",
                                IF HasText(settled.result, "message")
                                THEN settled.result.message
                                ELSE MsgSuccessPlain,
                                <<>>),
          dialog |-> FALSE]

(***************************************************************************)
(* Inputs of the workflow: what the host and the server may hold.          *)
(***************************************************************************)
\* Setting values: unset, blank, plain, padded.
SettingValues == {<<>>, <<" ">>, <<"x">>, <<" ", "x", " ">>}

SettingsStates ==
    [appid : SettingValues, appSecret : SettingValues,
     author : SettingValues, digest : SettingValues]

\* Document texts: empty, blank, plain, a heading, a heading of blanks, a
\* "#" that opens no heading, a bare "#" before a heading, a heading on the
\* second line.
WorkflowTexts ==
    {<<>>,
     <<" ", "\n">>,
     <<"a">>,
     <<"#", " ", "a">>,
     <<"#", " ", " ">>,
     <<"#", "a">>,
     <<"#", "\n", "#", " ", "a">>,
     <<"a", "\n", "#", " ", "a", " ">>}

WorkflowFileNames ==
    {<<"a", ".", "m", "d">>,
     <<".", "m", "d">>,
     <<"a", ".", "m", "d", "x">>,
     <<>>}

WorkflowDocuments ==
    [text : WorkflowTexts, fileName : WorkflowFileNames, isUntitled : BOOLEAN]

Editors ==
    {NoEditor} \cup
    {Editor(l, d) : l \in {"markdown", "plaintext"}, d \in WorkflowDocuments}

HostStates == [settings : SettingsStates, editor : Editors]

\* The response's data payload (the example of the wire protocol).
SampleData ==
    [media_id |-> "abc123", created_at |-> 1700000000, title |-> "T",
     content_preview |-> "P"]

SampleDataText ==
    "{\"media_id\":\"abc123\",\"created_at\":1700000000,\"title\":\"T\",\"content_preview\":\"P\"}"

Optional(name, Values) == {EmptyObject} \cup {name :> v : v \in Values}

\* Parsed response bodies: every field of ApiResponse present or absent.
ApiObjects ==
    {a @@ b @@ c @@ d :
        a \in Optional("success", BOOLEAN),
        b \in Optional("data", {SampleData}),
        c \in Optional("message", {"", "m"}),
        d \in Optional("error", {"", "e"})}

FieldText(o, f) ==
    "\"" \o f \o "\":" \o
        (CASE f = "success" -> IF o.success THEN "true" ELSE "false"
           [] f = "data" -> SampleDataText
           [] OTHER -> "\"" \o o[f] \o "\"")

RECURSIVE JoinFields(_, _)
JoinFields(o, fs) ==
    IF fs = <<>> THEN ""
    ELSE IF Len(fs) = 1 THEN FieldText(o, fs[1])
    ELSE FieldText(o, fs[1]) \o "," \o JoinFields(o, Tail(fs))

\* The body text whose parse is o.
JsonText(o) ==
    "{" \o JoinFields(o, SelectSeq(<<"success", "data", "message", "error">>,
                                    LAMBDA f : f \in DOMAIN o)) \o "}"

Bodies ==
    {[text |-> t,
      json |-> [kind |-> "syntaxError", message |-> "Unexpected end of JSON input"]] :
        t \in {"", "Bad Gateway"}}
    \cup {[text |-> "null", json |-> [kind |-> "null"]]}
    \cup {[text |-> JsonText(o), json |-> [kind |-> "object", value |-> o]] :
            o \in ApiObjects}

\* Bodies sent with an error status: plain text, and JSON that would count
\* as a success had the status been 2xx.
ErrorBodies ==
    {b \in Bodies :
        \/ b.json.kind # "object"
        \/ b.json.value \in {[success |-> TRUE],
                             [success |-> TRUE, data |-> SampleData],
                             [success |-> FALSE, error |-> "e"]}}

TransportOutcomes ==
    {[kind |-> "rejected", message |-> "fetch failed"]}
    \cup {[kind |-> "response", status |-> st, body |-> b] :
            st \in {200, 299}, b \in Bodies}
    \cup {[kind |-> "response", status |-> st, body |-> b] :
            st \in {300, 500}, b \in ErrorBodies}

(***************************************************************************)
(* State machine.                                                          *)
(***************************************************************************)
Invocations == {1, 2}

NoResponse == [kind |-> "none"]

NoDocument == [kind |-> "none"]

Pending == [kind |-> "pending"]

InitWorkflow ==
    /\ pc = [i \in Invocations |-> "idle"]
    /\ locals = [i \in Invocations |-> NoLocals]
    /\ requests = [i \in Invocations |-> <<>>]
    /\ response = [i \in Invocations |-> NoResponse]
    /\ progress = [i \in Invocations |-> <<>>]
    /\ notes = [i \in Invocations |-> <<>>]
    /\ prompt = [i \in Invocations |-> "none"]
    /\ overlaps = [i \in Invocations |-> {}]
    /\ clipboard = ""
    /\ settingsUi = 0

\* The command fires (lines 32-34) and uploadToWeChat runs up to its first
\* suspension: a return, or the await of fetch() inside withProgress.
Invoke(i, Envs) ==
    /\ pc[i] = "idle"
    /\ \E env \in Envs :
         LET r == uploadToWeChat(i, env)
         IN  /\ pc' = [pc EXCEPT ![i] = IF r.exit = "await" THEN "awaiting"
                                        ELSE "done"]
             /\ locals' = [locals EXCEPT ![i] = r.locals]
             /\ requests' = [requests EXCEPT ![i] = r.requests]
             /\ notes' = [notes EXCEPT ![i] = r.notes]
             /\ progress' = [progress EXCEPT ![i] =
                                IF r.exit = "await" THEN <<"preparing">>
                                ELSE <<>>]
             /\ prompt' = [prompt EXCEPT ![i] =
                              IF r.exit = "unconfigured" THEN "open" ELSE "none"]
    /\ overlaps' = [overlaps EXCEPT ![i] =
                       {j \in Invocations : pc[j] = "awaiting"}]
    /\ UNCHANGED <<document, extracted, response, clipboard, settingsUi>>

\* The fetch() of invocation i settles and the handler resumes: lines
\* 209-223, then 89-107 or the catch of 113-117.
Settle(i, Outcomes) ==
    /\ pc[i] = "awaiting"
    /\ \E outcome \in Outcomes :
         LET settled == callWeChatApi(outcome)
             shown == Present(settled)
         IN  /\ response' = [response EXCEPT ![i] = outcome]
             /\ locals' = [locals EXCEPT ![i].result = settled]
             /\ notes' = [notes EXCEPT ![i] = Append(@, shown.note)]
             /\ progress' = [progress EXCEPT ![i] =
                                IF settled.threw THEN @ ELSE Append(@, "done")]
             /\ pc' = [pc EXCEPT ![i] = IF shown.dialog THEN "dialog" ELSE "done"]
    /\ UNCHANGED <<document, extracted, requests, prompt, overlaps, clipboard,
                   settingsUi>>

\* The user answers the success notification (lines 93-102).
AnswerDialog(i) ==
    /\ pc[i] = "dialog"
    /\ \E action \in {ActionCopy, ActionClose, "dismissed"} :
         pc' = [pc EXCEPT ![i] = IF action = ActionCopy THEN "copying" ELSE "done"]
    /\ UNCHANGED <<document, extracted, locals, requests, response, progress,
                   notes, prompt, overlaps, clipboard, settingsUi>>

\* clipboard.writeText(media_id) completes (lines 100-101).
ClipboardWritten(i) ==
    /\ pc[i] = "copying"
    /\ clipboard' = locals[i].result.result.data.media_id
    /\ notes' = [notes EXCEPT ![i] =
                    Append(@, Notification("info", MsgCopied, <<>>))]
    /\ pc' = [pc EXCEPT ![i] = "done"]
    /\ UNCHANGED <<document, extracted, locals, requests, response, progress,
                   prompt, overlaps, settingsUi>>

\* The user answers the configuration prompt (lines 135-139).
AnswerPrompt(i) ==
    /\ prompt[i] = "open"
    /\ \E action \in {ActionOpenSettings, "dismissed"} :
         settingsUi' = IF action = ActionOpenSettings
                       THEN settingsUi + 1
                       ELSE settingsUi
    /\ prompt' = [prompt EXCEPT ![i] = "answered"]
    /\ UNCHANGED <<document, extracted, pc, locals, requests, response,
                   progress, notes, overlaps, clipboard>>

Step(i, Envs, Outcomes) ==
    \/ Invoke(i, Envs)
    \/ Settle(i, Outcomes)
    \/ AnswerDialog(i)
    \/ ClipboardWritten(i)
    \/ AnswerPrompt(i)

\* One invocation, every host state.
Init ==
    /\ document = NoDocument
    /\ extracted = Pending
    /\ InitWorkflow

Next == Step(1, HostStates, TransportOutcomes)

Spec == Init /\ [][Next]_vars

\* Two invocations that may overlap, over a few host states.
OverlapHostStates ==
    [settings : {[appid |-> <<"x">>, appSecret |-> <<" ", "x", " ">>,
                  author |-> <<"x">>, digest |-> <<>>],
                 [appid |-> <<"x">>, appSecret |-> <<" ">>,
                  author |-> <<>>, digest |-> <<>>]},
     editor : {NoEditor,
               Editor("markdown", [text |-> <<"#", " ", "a">>,
                                   fileName |-> <<"a", ".", "m", "d">>,
                                   isUntitled |-> FALSE]),
               Editor("markdown", [text |-> <<"a">>,
                                   fileName |-> <<"a">>,
                                   isUntitled |-> TRUE])}]

\* A rejection, an error status, a parse error, a business failure, and the
\* successes with and without a payload and a message.
OverlapOutcomes ==
    {o \in TransportOutcomes :
        \/ o.kind = "rejected"
        \/ /\ o.kind = "response"
           /\ o.status \in {200, 500}
           /\ \/ o.body.text = "Bad Gateway"
              \/ /\ o.body.json.kind = "object"
                 /\ o.body.json.value \in
                        {[success |-> TRUE, data |-> SampleData],
                         [success |-> TRUE, message |-> "m"],
                         [success |-> TRUE],
                         [success |-> FALSE, error |-> "e"]}}

NextOverlap ==
    \E i \in Invocations : Step(i, OverlapHostStates, OverlapOutcomes)

SpecOverlap == Init /\ [][NextOverlap]_vars

\* extractTitle alone, over every bounded document.
InitTitle ==
    /\ document \in Documents
    /\ extracted = Pending
    /\ InitWorkflow

ExtractTitle ==
    /\ extracted = Pending
    /\ extracted' = extractTitle(document)
    /\ UNCHANGED <<document, workflowVars>>

NextTitle == ExtractTitle

SpecTitle == InitTitle /\ [][NextTitle]_vars

(***************************************************************************)
(* Vocabulary of the properties, stated without the operators above.       *)
(***************************************************************************)
\* Empty or whitespace-only.
Blank(s) == \A k \in 1..Len(s) : s[k] \in WhiteSpace

\* s without its leading and trailing whitespace.
Stripped(s) ==
    LET solid == {k \in 1..Len(s) : s[k] \notin WhiteSpace}
    IN  IF solid = {} THEN <<>> ELSE SubSeq(s, Min(solid), Max(solid))

\* The lines of a text, without their terminators.
RECURSIVE LinesOf(_)
LinesOf(s) ==
    LET breaks == {k \in 1..Len(s) : s[k] \in LineTerminators}
    IN  IF breaks = {}
        THEN <<s>>
        ELSE <<SubSeq(s, 1, Min(breaks) - 1)>>
                 \o LinesOf(SubSeq(s, Min(breaks) + 1, Len(s)))

\* A line of the form "# <text>": "#", whitespace, one or more characters.
HeadingLineWithText(line) ==
    Len(line) >= 3 /\ line[1] = "#" /\ line[2] \in WhiteSpace

\* The heading lines with text, by line number.
HeadingLines(text) ==
    {k \in 1..Len(LinesOf(text)) : HeadingLineWithText(LinesOf(text)[k])}

\* A line that opens a "#" heading, its text possibly missing: "#" followed
\* by whitespace or by the end of the line.
HeadingMarkerLine(line) ==
    /\ line # <<>>
    /\ line[1] = "#"
    /\ (Len(line) = 1 \/ line[2] \in WhiteSpace)

HasHeading(text) ==
    \E k \in 1..Len(LinesOf(text)) : HeadingMarkerLine(LinesOf(text)[k])

\* The path ends in ".md", in any letter case.
EndsWithDotMd(f) ==
    /\ Len(f) >= 3
    /\ f[Len(f) - 2] = "."
    /\ f[Len(f) - 1] \in {"m", "M"}
    /\ f[Len(f)] \in {"d", "D"}

\* The path without its directory and without its last three characters.
BaseWithoutExt(f) ==
    LET seps == {k \in 1..Len(f) : f[k] \in {"/", "\\"}}
        start == IF seps = {} THEN 1 ELSE Max(seps) + 1
    IN  SubSeq(f, start, Len(f) - 3)

\* Every check of uploadToWeChat passes on what the invocation read.
ChecksPass(l) ==
    /\ l.settings # Unset
    /\ ~Blank(l.settings.appid)
    /\ ~Blank(l.settings.appSecret)
    /\ l.editor # Unset
    /\ l.editor.kind = "editor"
    /\ l.editor.languageId = "markdown"
    /\ l.markdown # Unset
    /\ ~Blank(l.markdown.value)
    /\ l.title # Unset
    /\ l.title.kind = "string"
    /\ l.title.value # <<>>

\* The transport outcome is a failure of callWeChatApi: a network error, a
\* non-2xx status, a body that is no JSON object, or a falsy success flag.
Failure(r) ==
    \/ r.kind = "rejected"
    \/ /\ r.kind = "response"
       /\ \/ r.status < 200
          \/ r.status > 299
          \/ r.body.json.kind # "object"
          \/ "success" \notin DOMAIN r.body.json.value
          \/ r.body.json.value.success = FALSE

(***************************************************************************)
(* C1 (SpecTitle).  For every document text that contains a line of the    *)
(* form "# <text>", extractTitle returns the trimmed <text> of the first    *)
(* such line, whatever the file path and the isUntitled flag are.          *)
(* The code does not satisfy this: \s+ runs across line breaks.            *)
(***************************************************************************)
C1_FirstHeadingLine ==
    (extracted # Pending /\ HeadingLines(document.text) # {}) =>
        extracted =
            Str(Stripped(Tail(LinesOf(document.text)[Min(HeadingLines(document.text))])))

C4_Unconfigured ==
    \A i \in Invocations :
        (/\ locals[i].settings # Unset
         /\ \/ Blank(locals[i].settings.appid)
            \/ Blank(locals[i].settings.appSecret)) =>
            /\ locals[i].config = Null
            /\ notes[i] = <<Notification("error", MsgConfigure,
                                         <<ActionOpenSettings>>)>>
            /\ prompt[i] \in {"open", "answered"}
            /\ requests[i] = <<>>
            /\ response[i] = NoResponse
            /\ pc[i] = "done"
            /\ locals[i].editor = Unset

C4_Witness ==
    /\ pc[1] = "done"
    /\ locals[1].settings.appid = <<"x">>
    /\ locals[1].settings.appSecret = <<" ">>
    /\ notes[1] = <<ConfigurationPrompt>>
    /\ prompt[1] = "answered"
    /\ settingsUi = 1

(***************************************************************************)
(* C5 (Spec).  callWeChatApi maps a response, first match wins: (a) a      *)
(* non-2xx status throws an error with the status code and the body text   *)
(* verbatim, even if the body is JSON with success = true; (b) 2xx with a  *)
(* falsy success flag throws the error field if non-empty, else the        *)
(* message field if non-empty, else the fallback; (c) otherwise the        *)
(* parsed response is returned unmodified.                                 *)
(***************************************************************************)
C5_ResponseMapping ==
    \A i \in Invocations :
        response[i].kind = "response" =>
            LET status == response[i].status
                body == response[i].body
                settled == locals[i].result
            IN  /\ (status < 200 \/ status > 299) =>
                       settled =
                           [threw |-> TRUE,
                            error |-> [isError |-> TRUE,
                                       message |-> "HTTP " \o ToString(status)
                                                       \o ": " \o body.text]]
                /\ (status >= 200 /\ status <= 299 /\ body.json.kind = "object") =>
                       LET o == body.json.value
                       IN  IF "success" \in DOMAIN o /\ o.success
                           THEN settled = [threw |-> FALSE, result |-> o]
                           ELSE /\ settled.threw
                                /\ settled.error.message =
                                       IF "error" \in DOMAIN o /\ o.error # ""
                                       THEN o.error
                                       ELSE IF "message" \in DOMAIN o /\ o.message # ""
                                       THEN o.message
                                       ELSE MsgUploadFailed

C5_Witness ==
    /\ response[1].kind = "response"
    /\ response[1].status = 500
    /\ response[1].body.json = [kind |-> "object",
                                value |-> [success |-> TRUE, data |-> SampleData]]
    /\ locals[1].result.threw
    /\ pc[1] = "done"

(***************************************************************************)
(* C6 (Spec).  An invocation issues exactly one POST when all checks pass  *)
(* (credentials, active editor, markdown language, non-blank text,         *)
(* non-empty title) and none when a check fails; it never issues a second  *)
(* one, whatever the outcome of the first.                                 *)
(***************************************************************************)
C6_OnePost ==
    \A i \in Invocations :
        /\ Len(requests[i]) <= 1
        /\ \A k \in 1..Len(requests[i]) : requests[i][k].method = "POST"
        /\ pc[i] # "idle" =>
               Len(requests[i]) = IF ChecksPass(locals[i]) THEN 1 ELSE 0

C6_Witness ==
    /\ pc[1] = "done"
    /\ response[1].kind = "rejected"
    /\ Len(requests[1]) = 1
    /\ ChecksPass(locals[1])

(***************************************************************************)
(* C7 (Spec).  Every request body carries the document text verbatim as    *)
(* markdown, the extracted title as title, appid and app_secret non-empty  *)
(* and trimmed, and author (digest) if and only if that setting is         *)
(* non-empty after trimming, never as an empty string.                     *)
(***************************************************************************)
C7_RequestBody ==
    \A i \in Invocations :
        \A k \in 1..Len(requests[i]) :
            LET b == requests[i][k].body
                l == locals[i]
            IN  /\ b.markdown = l.doc.text
                /\ b.markdown = l.markdown.value
                /\ b.title = l.title.value
                /\ b.appid = Stripped(l.settings.appid)
                /\ b.appid # <<>>
                /\ b.app_secret = Stripped(l.settings.appSecret)
                /\ b.app_secret # <<>>
                /\ \A f \in {"author", "digest"} :
                       /\ f \in DOMAIN b <=> ~Blank(l.settings[f])
                       /\ f \in DOMAIN b =>
                              b[f] # <<>> /\ b[f] = Stripped(l.settings[f])
                /\ DOMAIN b \subseteq {"markdown", "title", "appid", "app_secret",
                                       "author", "digest"}

C7_Witness ==
    /\ Len(requests[1]) = 1
    /\ locals[1].settings =
           [appid |-> <<" ", "x", " ">>, appSecret |-> <<"x">>,
            author |-> <<" ", "x", " ">>, digest |-> <<" ">>]
    /\ DOMAIN requests[1][1].body = {"markdown", "title", "appid", "app_secret",
                                     "author"}
    /\ requests[1][1].body.author = <<"x">>
    /\ requests[1][1].body.markdown = <<"a", "\n", "#", " ", "a", " ">>
    /\ requests[1][1].body.title = <<"a">>

(***************************************************************************)
(* C8 (Spec).  As claimed: a result whose success flag is true but whose   *)
(* data payload is absent is treated as a failure for presentation: no     *)
(* success notification is shown for it.                                   *)
(***************************************************************************)
SuccessWithoutData(i) ==
    /\ locals[i].result # Unset
    /\ ~locals[i].result.threw
    /\ "data" \notin DOMAIN locals[i].result.result

C8_NoSuccessNotification ==
    \A i \in Invocations :
        SuccessWithoutData(i) =>
            \A k \in 1..Len(notes[i]) : notes[i][k].severity # "info"

\* C8 as amended: a result whose success flag is true but whose data payload
\* is absent is presented as a plain success: the invocation shows exactly
\* one information notification, carrying the response's message if it is
\* non-empty and the generic "upload succeeded" text otherwise, offers no
\* "copy Media ID" action, shows no failure notification and copies nothing.
C8_PlainSuccess ==
    \A i \in Invocations :
        SuccessWithoutData(i) =>
            LET o == locals[i].result.result
            IN  /\ notes[i] =
                       <<Notification("info",
                                      IF "message" \in DOMAIN o /\ o.message # ""
                                      THEN o.message
                                      ELSE MsgSuccessPlain,
                                      <<>>)>>
                /\ pc[i] = "done"
                /\ clipboard = ""

C8_Witness ==
    /\ response[1].kind = "response"
    /\ response[1].status = 200
    /\ locals[1].result = [threw |-> FALSE, result |-> [success |-> TRUE]]
    /\ notes[1] = <<Notification("info", MsgSuccessPlain, <<>>)>>
    /\ pc[1] = "done"

(***************************************************************************)
(* C9 (Spec).  Whenever callWeChatApi fails (network error, non-2xx        *)
(* status, parse error, falsy success flag) the top-level handler catches  *)
(* the error: the invocation shows exactly one failure notification        *)
(* carrying the error's message, no success notification, copies nothing   *)
(* to the clipboard, and ends normally.                                    *)
(***************************************************************************)
C9_FailureHandled ==
    \A i \in Invocations :
        (response[i] # NoResponse /\ Failure(response[i])) =>
            /\ locals[i].result.threw
            /\ notes[i] = <<Notification("error",
                                         MsgFailurePrefix
                                             \o locals[i].result.error.message,
                                         <<>>)>>
            /\ pc[i] = "done"
            /\ clipboard = ""
            /\ Len(requests[i]) = 1

C9_Witness ==
    /\ response[1].kind = "response"
    /\ response[1].status = 200
    /\ response[1].body.json.kind = "syntaxError"
    /\ notes[1] = <<Notification("error",
                                 MsgFailurePrefix \o "Unexpected end of JSON input",
                                 <<>>)>>
    /\ pc[1] = "done"

(***************************************************************************)
(* C10 (SpecOverlap).  Overlapping invocations are independent: an         *)
(* invocation started while another is suspended awaiting its response is  *)
(* neither blocked nor dropped and issues its own POST, and under every    *)
(* interleaving of the responses the notification an invocation shows for  *)
(* its upload is the one its own response determines.                      *)
(***************************************************************************)
C10_Independent ==
    \A i \in Invocations :
        /\ pc[i] = "idle" => ENABLED Invoke(i, OverlapHostStates)
        /\ (pc[i] # "idle" /\ ChecksPass(locals[i])) => Len(requests[i]) = 1
        /\ response[i] # NoResponse =>
               /\ notes[i][1] = Present(callWeChatApi(response[i])).note
               /\ notes[i][1].severity =
                      IF Failure(response[i]) THEN "error" ELSE "info"

C10_Witness ==
    /\ overlaps[2] = {1}
    /\ pc[1] = "awaiting"
    /\ pc[2] = "done"
    /\ Len(requests[1]) = 1
    /\ Len(requests[2]) = 1
    /\ response[2].kind = "response"
    /\ response[2].status = 500
    /\ notes[2][1].severity = "error"
    /\ notes[1] = <<>>
====
